---- MODULE Spec2Model ----
(***************************************************************************)
(* Model of the offline-first HTML fetcher (src/core/fetch): fetch_html    *)
(* as a sequence of steps over one URL's cache directory, with the         *)
(* network (robots.txt GET, page GET, headless render) as the environment. *)
(***************************************************************************)
EXTENDS Integers, Sequences, FiniteSets, TLC

\* ------------------------------------------------------------------ bounds
MaxCalls == 2

\* ------------------------------------------------------- program constants
DefaultMinBodyText == 400
DefaultStatus == 200
ErrorStatusFloor == 400

bad_status == {401, 403, 429, 451, 503, 520, 521, 522, 523, 524, 525, 526}

\* Alternatives of _CAPTCHA_WAF_PATTERN (case-insensitive search).
CAPTCHA_WAF_PATTERN ==
    {"captcha", "cf-chl", "cloudflare", "hcaptcha", "recaptcha", "akamai",
     "incapsula", "imperva", "robot check", "access denied"}

FETCHER_ERRORS ==
    {"OfflineRequiredError", "DisallowedByRobotsError", "NetworkError",
     "InvalidHtmlError", "CaptchaBlockedError"}

\* ------------------------------------------------------------ environment
\* An HTML document: the marker words its text contains, the length of its
\* visible text, and whether BeautifulSoup parses and prettifies it.
PageBodies ==
    { [words |-> w, textLen |-> 500, wellFormed |-> p] :
        w \in {{"listing"}, {"captcha", "listing"}}, p \in BOOLEAN }

RenderedHtmls ==
    { [words |-> {"rendered"}, textLen |-> t, wellFormed |-> p] :
        t \in {399, 400}, p \in BOOLEAN }

Statuses == {200, 404, 503}

\* Response of requests.get for the page: a RequestException (ok = FALSE)
\* or a status code with a body.
NoHtml == [words |-> {}, textLen |-> 0, wellFormed |-> FALSE]

PageResponses ==
    { [ok |-> FALSE, status |-> 0, body |-> NoHtml] } \cup
    { [ok |-> TRUE, status |-> s, body |-> b] : s \in Statuses, b \in PageBodies }

\* Result of the headless render: an exception (ok = FALSE) or page.content().
RenderResults ==
    { [ok |-> FALSE, html |-> NoHtml] } \cup
    { [ok |-> TRUE, html |-> h] : h \in RenderedHtmls }

\* robots.txt bodies as RobotFileParser reads them: a sequence of entries, each
\* a user-agent token and its rule lines in file order.  agent is "*" , "ours"
\* (a token contained in the policy's user agent) or "other"; a rule line says
\* whether its path is a prefix of the URL's path and whether it is an Allow.
Rule(matches, allow) == [matches |-> matches, allow |-> allow]

Entry(agent, rules) == [agent |-> agent, rules |-> rules]

RobotsTexts ==
    { <<>>,
      << Entry("*", << Rule(TRUE, FALSE) >>) >>,
      << Entry("*", << Rule(FALSE, FALSE) >>) >>,
      << Entry("*", << Rule(TRUE, FALSE) >>), Entry("ours", << Rule(TRUE, TRUE) >>) >>,
      << Entry("other", << Rule(TRUE, FALSE) >>) >>,
      << Entry("ours", << Rule(TRUE, FALSE) >>), Entry("*", << Rule(TRUE, TRUE) >>) >> }

\* Response of the robots.txt GET: empty = TRUE is a body that decodes to "".
RobotsResponses ==
    { [ok |-> FALSE, status |-> 0, empty |-> TRUE, text |-> <<>>] } \cup
    { [ok |-> TRUE, status |-> s, empty |-> TRUE, text |-> <<>>] : s \in {200, 404} } \cup
    { [ok |-> TRUE, status |-> s, empty |-> FALSE, text |-> t] :
        s \in {200, 404}, t \in RobotsTexts }

\* ----------------------------------------------------------------- policy
Policies ==
    [ captcha_mode : {"strict", "soft", "off"},
      min_body_text : {DefaultMinBodyText},
      allow_network : BOOLEAN,
      allow_non_200 : BOOLEAN,
      respect_robots : BOOLEAN,
      render_js : BOOLEAN,
      strict_dom : BOOLEAN ]

DefaultPolicy ==
    [ captcha_mode |-> "soft", min_body_text |-> DefaultMinBodyText,
      allow_network |-> FALSE, allow_non_200 |-> FALSE, respect_robots |-> TRUE,
      render_js |-> FALSE, strict_dom |-> FALSE ]

\* ------------------------------------------------------------------ state
VARIABLES
    cache,      \* the URL's cache directory: files as sets of at most one content
    pol,        \* policy of the current call
    pc,         \* position of the current call inside fetch_html
    loc,        \* fetch_html's locals: status, content, rendered_bytes, rendered_html
    result,     \* what the last call returned or raised
    netLog,     \* network calls issued by the current call, in order
    robotsSeen, \* the robots.txt response of the current call (at most one)
    pageSeen,   \* the page GET response of the current call (at most one)
    renders,    \* the render results of the current call, in order
    pre,        \* the cache as it was when the current call started
    clock,      \* datetime.now
    calls,      \* number of fetch_html calls started
    prevEnd     \* how the previous fetch_html call ended

\* download_media (src/core/media/downloader.py): one call, its arguments and
\* the remote server fixed when the call starts.
VARIABLES
    args,       \* policy and knobs of the download_media call
    candidates, \* the candidate iterable, as a sequence
    server,     \* what a GET of each URL answers during the call
    dpc,        \* position of the call inside download_media
    idx,        \* position of the selection loop in candidates
    selected,   \* the set of candidates that passed the pre-filter
    processed,  \* the selected candidates the download loop has been through
    requested,  \* URLs of the GET requests issued, in order
    media,      \* final files in media_dir: <sha256>.<ext> with their content
    parts,      \* number of dl_*.part temporary files in media_dir
    assets,     \* the assets list built so far
    respBound,  \* whether the local variable resp has been assigned
    dresult     \* "none", "returned" (the assets list) or the exception raised

\* The other entry points (media finders, rank_hero, cache_paths, duplicate
\* clustering, concurrent download workers): one call at a time.
VARIABLES
    inp,        \* the arguments of the call
    st,         \* the locals of the call, its result once it has ended
    at          \* position of the call inside its function

fetchVars == << cache, pol, pc, loc, result, netLog, robotsSeen, pageSeen,
                renders, pre, clock, calls, prevEnd >>

dlVars == << args, candidates, server, dpc, idx, selected, processed,
             requested, media, parts, assets, respBound, dresult >>

callVars == << inp, st, at >>

vars == << cache, pol, pc, loc, result, netLog, robotsSeen, pageSeen, renders,
           pre, clock, calls, prevEnd, args, candidates, server, dpc, idx, selected,
           processed, requested, media, parts, assets, respBound, dresult,
           inp, st, at >>

EmptyCache ==
    [ html_raw |-> {}, tree_raw |-> FALSE, html_rendered |-> {},
      tree_rendered |-> FALSE, meta |-> {} ]

NoLocals ==
    [ status |-> 0, content |-> {}, raw_looks_captcha |-> FALSE,
      rendered_bytes |-> {}, rendered_html |-> {} ]

NoResult ==
    [ kind |-> "none", error |-> "", mode |-> "", status_code |-> 0,
      html_path |-> "", tree_path |-> "", bytes |-> {}, fetched_at |-> 0 ]

Raised(e) == [NoResult EXCEPT !.kind = "error", !.error = e]

\* No download_media call is in progress.
NoDownload ==
    /\ args = [ allow_network |-> FALSE ]
    /\ candidates = <<>>
    /\ server = <<>>
    /\ dpc = "off"
    /\ idx = 0
    /\ selected = {}
    /\ processed = {}
    /\ requested = <<>>
    /\ media = {}
    /\ parts = 0
    /\ assets = <<>>
    /\ respBound = FALSE
    /\ dresult = "none"

\* None of the other entry points is running.
NoCall ==
    /\ inp = <<>>
    /\ st = <<>>
    /\ at = "off"

Init ==
    /\ NoDownload
    /\ NoCall
    /\ cache = EmptyCache
    /\ pol = DefaultPolicy
    /\ pc = "idle"
    /\ loc = NoLocals
    /\ result = NoResult
    /\ netLog = <<>>
    /\ robotsSeen = {}
    /\ pageSeen = {}
    /\ renders = <<>>
    /\ pre = EmptyCache
    /\ clock = 1
    /\ calls = 0
    /\ prevEnd = "other"

\* ---------------------------------------------------------------- helpers
MergedMetaResetFirst(c, mode, status_code, tree_file, now) ==
    [ first_fetched_at |-> now, last_fetched_at |-> now,
      status_code |-> status_code, mode |-> mode, tree_path |-> tree_file,
      captcha_suspected |-> IF c.meta = {} THEN FALSE
                            ELSE (CHOOSE x \in c.meta : TRUE).captcha_suspected ]

\* meta.json after _return_snapshot: the new keys merged over the previous
\* file, first_fetched_at kept when the previous file has it (0 = key absent).
MergedMeta(c, mode, status_code, tree_file, now) ==
    LET prev == c.meta
        first == IF prev = {} THEN now
                 ELSE LET m == CHOOSE x \in prev : TRUE
                      IN IF m.first_fetched_at = 0 THEN now ELSE m.first_fetched_at
        captcha == IF prev = {} THEN FALSE
                   ELSE (CHOOSE x \in prev : TRUE).captcha_suspected
    IN [ first_fetched_at |-> first, last_fetched_at |-> now,
         status_code |-> status_code, mode |-> mode, tree_path |-> tree_file,
         captcha_suspected |-> captcha ]

\* _return_snapshot: writes meta.json and builds the HtmlSnapshot.
return_snapshot(c, mode, status_code, html_file, tree_file, raw_bytes) ==
    /\ cache' = [c EXCEPT !.meta = {MergedMeta(c, mode, status_code, tree_file, clock)}]
    /\ result' = [ kind |-> "snapshot", error |-> "", mode |-> mode,
                   status_code |-> status_code, html_path |-> html_file,
                   tree_path |-> tree_file, bytes |-> raw_bytes,
                   fetched_at |-> clock ]
    /\ clock' = clock + 1
    /\ pc' = "done"

\* An exception leaves the with-block: the call ends with that error.
Raise(e) ==
    /\ result' = Raised(e)
    /\ pc' = "done"
    /\ clock' = clock

PersistedStatusAlwaysDefault(c) == DefaultStatus

\* status = int(json.loads(meta).get("status_code", 200)), 200 on any failure.
PersistedStatus(c) ==
    IF c.meta = {} THEN DefaultStatus
    ELSE LET m == CHOOSE x \in c.meta : TRUE
         IN IF m.status_code = 0 THEN DefaultStatus ELSE m.status_code


\* Entry.allowance: the first rule line that applies to the path decides.
RECURSIVE allowance(_)
allowance(rules) ==
    IF rules = <<>> THEN TRUE
    ELSE IF Head(rules).matches THEN Head(rules).allow
    ELSE allowance(Tail(rules))

\* RobotFileParser.can_fetch after parse(): the first entry naming the user
\* agent decides, then the first "*" entry (the default entry), else allowed.
can_fetch(text) ==
    LET named == { i \in 1..Len(text) : text[i].agent = "ours" }
        star == { i \in 1..Len(text) : text[i].agent = "*" }
        first(S) == CHOOSE i \in S : \A j \in S : i <= j
    IN IF named # {} THEN allowance(text[first(named)].rules)
       ELSE IF star # {} THEN allowance(text[first(star)].rules)
       ELSE TRUE

is_allowed_always(r) == TRUE

\* is_allowed on a robots.txt response that was retrieved.
is_allowed(r) ==
    IF r.status >= ErrorStatusFloor \/ r.empty THEN TRUE ELSE can_fetch(r.text)

\* raw_looks_captcha = (status in bad_status) or _CAPTCHA_PAT.search(body_txt)
looks_captcha(status, body) ==
    status \in bad_status \/ body.words \cap CAPTCHA_WAF_PATTERN # {}

\* _looks_like_real_content: enough visible text.
looks_like_real_content(html) == html.textLen >= pol.min_body_text

\* The render block shared by both render sites: _render_page_with_playwright,
\* write index.rendered.html, prettify into tree.rendered.html.  A prettify
\* failure under strict_dom raises InvalidHtmlError inside the enclosing
\* try/except Exception, which resets rendered_bytes (and, at the first site,
\* rendered_html) to None.
RenderInto(c, r) ==
    IF ~r.ok THEN c
    ELSE [c EXCEPT !.html_rendered = {r.html},
                   !.tree_rendered = c.tree_rendered \/ r.html.wellFormed]

RenderKept(r) == r.ok /\ (r.html.wellFormed \/ ~pol.strict_dom)

\* tree.raw.html after BeautifulSoup(content).prettify() was attempted.
PrettyRaw(c, content) == [c EXCEPT !.tree_raw = c.tree_raw \/ content.wellFormed]

TreeRendered(c) == IF c.tree_rendered THEN "tree_rendered" ELSE ""

TreeRaw(c) == IF c.tree_raw THEN "tree_raw" ELSE ""

\* meta.json after the soft-mode annotation: the previous file (or {}) with
\* captcha_suspected set.
Annotated(c) ==
    LET blank == [ first_fetched_at |-> 0, last_fetched_at |-> 0, status_code |-> 0,
                   mode |-> "", tree_path |-> "", captcha_suspected |-> FALSE ]
        prev == IF c.meta = {} THEN blank ELSE CHOOSE x \in c.meta : TRUE
    IN [c EXCEPT !.meta = {[prev EXCEPT !.captcha_suspected = TRUE]}]

\* Exceptions other than the fetcher's own that the file system, json or the
\* parser can raise inside the guarded block: the exception's type name,
\* whether it is a requests.RequestException, and which signature substrings
\* its message "<type name>: <text>" contains.
Unexpected ==
    { [type |-> "OSError", requests |-> FALSE, words |-> {}],
      [type |-> "ConnectionError", requests |-> TRUE, words |-> {}],
      [type |-> "RuntimeError", requests |-> FALSE, words |-> {"cloudflare"}],
      [type |-> "Error", requests |-> FALSE, words |-> {"playwright", "timeout"}],
      [type |-> "ImportError", requests |-> FALSE, words |-> {"playwright"}],
      [type |-> "ParserError", requests |-> FALSE, words |-> {"parser", "parse"}] }

PlaywrightDomWords == {"parse", "content", "dom", "renderer", "navigation", "timeout"}

ParserWords == {"parser", "parse", "lxml", "beautifulsoup", "bs4"}

\* classify_fetcher_error for an exception that is not an HtmlFetcherError.
classify_fetcher_error(exc, strict_dom) ==
    IF exc.requests THEN "NetworkError"
    ELSE IF exc.words \cap CAPTCHA_WAF_PATTERN # {} THEN "CaptchaBlockedError"
    ELSE IF "playwright" \in exc.words
    THEN IF strict_dom /\ exc.words \cap PlaywrightDomWords # {}
         THEN "InvalidHtmlError" ELSE "HtmlFetcherError"
    ELSE IF strict_dom /\ exc.words \cap ParserWords # {} THEN "InvalidHtmlError"
    ELSE "HtmlFetcherError"

fetcher_error_guard_reraise(exc, strict_dom) == exc.type

\* fetcher_error_guard: the five kinds pass, anything else is classified.
fetcher_error_guard(exc, strict_dom) ==
    IF exc.type \in FETCHER_ERRORS THEN exc.type
    ELSE classify_fetcher_error(exc, strict_dom)

\* ---------------------------------------------------------------- actions
\* How the call that just ended did so: NetworkError raised for an HTTP
\* status >= 400 (line 194), CaptchaBlockedError raised in strict mode
\* (line 258), or anything else (a Snapshot, another error, no call yet).
EndOfCall ==
    IF result = Raised("NetworkError")
            /\ \E p \in pageSeen : p.ok /\ p.status >= ErrorStatusFloor
    THEN "http_error"
    ELSE IF result = Raised("CaptchaBlockedError") /\ pol.captcha_mode = "strict"
    THEN "captcha_strict"
    ELSE "other"

\* fetch_html is entered with a policy; the locals are fresh.
StartCall ==
    /\ pc \in {"idle", "done"}
    /\ calls < MaxCalls
    /\ \E p \in Policies : pol' = p
    /\ pc' = "CacheCheck"
    /\ loc' = NoLocals
    /\ result' = NoResult
    /\ netLog' = <<>>
    /\ robotsSeen' = {}
    /\ pageSeen' = {}
    /\ renders' = <<>>
    /\ pre' = cache
    /\ calls' = calls + 1
    /\ prevEnd' = EndOfCall
    /\ UNCHANGED << cache, clock >>
    /\ UNCHANGED << dlVars, callVars >>

CacheCheckNeedsMeta ==
    /\ pc = "CacheCheck"
    /\ IF cache.meta # {} /\ pol.render_js /\ cache.html_rendered # {}
       THEN return_snapshot(cache, "rendered", PersistedStatus(cache), "html_rendered",
                            TreeRendered(cache), cache.html_rendered)
       ELSE IF cache.meta # {} /\ cache.html_raw # {}
       THEN return_snapshot(cache, "raw", PersistedStatus(cache), "html_raw",
                            TreeRaw(cache), cache.html_raw)
       ELSE /\ pc' = "OfflineGuard"
            /\ UNCHANGED << cache, result, clock >>
    /\ UNCHANGED << pol, loc, netLog, robotsSeen, pageSeen, renders, pre, calls >>
    /\ UNCHANGED << prevEnd, dlVars, callVars >>

CacheCheckRenderedOnly ==
    /\ pc = "CacheCheck"
    /\ IF pol.render_js /\ cache.html_rendered # {}
       THEN return_snapshot(cache, "rendered", PersistedStatus(cache), "html_rendered",
                            TreeRendered(cache), cache.html_rendered)
       ELSE /\ pc' = "OfflineGuard"
            /\ UNCHANGED << cache, result, clock >>
    /\ UNCHANGED << pol, loc, netLog, robotsSeen, pageSeen, renders, pre, calls >>
    /\ UNCHANGED << prevEnd, dlVars, callVars >>

\* Cache-first: rendered if asked, otherwise raw.
CacheCheck ==
    /\ pc = "CacheCheck"
    /\ IF pol.render_js /\ cache.html_rendered # {}
       THEN return_snapshot(cache, "rendered", PersistedStatus(cache), "html_rendered",
                            TreeRendered(cache),
                            cache.html_rendered)
       ELSE IF cache.html_raw # {}
       THEN return_snapshot(cache, "raw", PersistedStatus(cache), "html_raw",
                            TreeRaw(cache),
                            cache.html_raw)
       ELSE /\ pc' = "OfflineGuard"
            /\ UNCHANGED << cache, result, clock >>
    /\ UNCHANGED << pol, loc, netLog, robotsSeen, pageSeen, renders, pre, calls >>
    /\ UNCHANGED << prevEnd, dlVars, callVars >>

OfflineGuardSkipped ==
    /\ pc = "OfflineGuard"
    /\ pc' = "RobotsCheck"
    /\ UNCHANGED << result, clock >>
    /\ UNCHANGED << cache, pol, loc, netLog, robotsSeen, pageSeen, renders, pre, calls >>
    /\ UNCHANGED << prevEnd, dlVars, callVars >>

\* Offline guard: a miss with networking disabled raises OfflineRequiredError.
OfflineGuard ==
    /\ pc = "OfflineGuard"
    /\ IF ~pol.allow_network
       THEN Raise("OfflineRequiredError")
       ELSE /\ pc' = "RobotsCheck"
            /\ UNCHANGED << result, clock >>
    /\ UNCHANGED << cache, pol, loc, netLog, robotsSeen, pageSeen, renders, pre, calls >>
    /\ UNCHANGED << prevEnd, dlVars, callVars >>

\* robots.txt: the check runs before the page GET; a RequestException of the
\* robots GET leaves _http_get as NetworkError and is_allowed does not catch it.
RobotsCheck ==
    /\ pc = "RobotsCheck"
    /\ IF pol.respect_robots
       THEN \E r \in RobotsResponses :
              /\ netLog' = Append(netLog, "robots")
              /\ robotsSeen' = {r}
              /\ IF ~r.ok THEN Raise("NetworkError")
                 ELSE IF ~is_allowed(r) THEN Raise("DisallowedByRobotsError")
                 ELSE /\ pc' = "RawFetch"
                      /\ UNCHANGED << result, clock >>
       ELSE /\ pc' = "RawFetch"
            /\ UNCHANGED << result, clock, netLog, robotsSeen >>
    /\ UNCHANGED << cache, pol, loc, pageSeen, renders, pre, calls >>
    /\ UNCHANGED << prevEnd, dlVars, callVars >>

RawFetchWriteAfterStatus ==
    /\ pc = "RawFetch"
    /\ \E p \in PageResponses :
         /\ netLog' = Append(netLog, "get")
         /\ pageSeen' = {p}
         /\ IF ~p.ok \/ (~pol.allow_non_200 /\ p.status >= ErrorStatusFloor)
            THEN /\ Raise("NetworkError")
                 /\ UNCHANGED << cache, loc >>
            ELSE /\ cache' = [cache EXCEPT !.html_raw = {p.body}]
                 /\ loc' = [loc EXCEPT !.status = p.status, !.content = {p.body}]
                 /\ pc' = "CaptchaDetect"
                 /\ UNCHANGED << result, clock >>
    /\ UNCHANGED << pol, robotsSeen, renders, pre, calls >>
    /\ UNCHANGED << prevEnd, dlVars, callVars >>

\* Online fetch: the raw bytes are written before the status is looked at.
RawFetch ==
    /\ pc = "RawFetch"
    /\ \E p \in PageResponses :
         /\ netLog' = Append(netLog, "get")
         /\ pageSeen' = {p}
         /\ IF ~p.ok
            THEN /\ Raise("NetworkError")
                 /\ UNCHANGED << cache, loc >>
            ELSE /\ cache' = [cache EXCEPT !.html_raw = {p.body}]
                 /\ loc' = [loc EXCEPT !.status = p.status, !.content = {p.body}]
                 /\ IF ~pol.allow_non_200 /\ p.status >= ErrorStatusFloor
                    THEN Raise("NetworkError")
                    ELSE /\ pc' = "CaptchaDetect"
                         /\ UNCHANGED << result, clock >>
    /\ UNCHANGED << pol, robotsSeen, renders, pre, calls >>
    /\ UNCHANGED << prevEnd, dlVars, callVars >>

\* Early WAF/CAPTCHA detection on the raw response.
CaptchaDetect ==
    /\ pc = "CaptchaDetect"
    /\ LET content == CHOOSE b \in loc.content : TRUE
           suspected == looks_captcha(loc.status, content)
       IN /\ loc' = [loc EXCEPT !.raw_looks_captcha = suspected]
          /\ pc' = IF suspected THEN "RenderFallback" ELSE "DomPersist"
    /\ UNCHANGED << cache, pol, result, netLog, robotsSeen, pageSeen, renders,
                    pre, clock, calls >>
    /\ UNCHANGED << prevEnd, dlVars, callVars >>

\* Raw looked like a captcha: try the JS render first (if enabled) and return
\* the rendered page when it looks like real content.
RenderFallback ==
    /\ pc = "RenderFallback"
    /\ LET content == CHOOSE b \in loc.content : TRUE
       IN IF pol.render_js
          THEN \E r \in RenderResults :
                 LET c1 == RenderInto(cache, r)
                     kept == RenderKept(r)
                 IN /\ netLog' = Append(netLog, "render")
                    /\ renders' = Append(renders, r)
                    /\ loc' = [loc EXCEPT
                                 !.rendered_bytes = IF kept THEN {r.html} ELSE {},
                                 !.rendered_html = IF kept THEN {r.html} ELSE {}]
                    /\ IF kept /\ looks_like_real_content(r.html)
                       THEN return_snapshot(PrettyRaw(c1, content), "rendered",
                                            loc.status, "html_rendered",
                                            TreeRendered(c1), {r.html})
                       ELSE /\ cache' = c1
                            /\ pc' = "CaptchaMode"
                            /\ UNCHANGED << result, clock >>
          ELSE /\ pc' = "CaptchaMode"
               /\ UNCHANGED << cache, loc, result, clock, netLog, renders >>
    /\ UNCHANGED << pol, robotsSeen, pageSeen, pre, calls >>
    /\ UNCHANGED << prevEnd, dlVars, callVars >>

CaptchaModeStrictAsSoft ==
    /\ pc = "CaptchaMode"
    /\ IF pol.captcha_mode \in {"strict", "soft"}
       THEN cache' = Annotated(cache)
       ELSE UNCHANGED cache
    /\ pc' = "DomPersist"
    /\ UNCHANGED << pol, loc, result, clock, netLog, robotsSeen, pageSeen, renders,
                    pre, calls >>
    /\ UNCHANGED << prevEnd, dlVars, callVars >>

\* Raw looked like a captcha and render did not help (or is not enabled).
CaptchaMode ==
    /\ pc = "CaptchaMode"
    /\ LET content == CHOOSE b \in loc.content : TRUE
       IN CASE pol.captcha_mode = "strict" ->
                 /\ cache' = PrettyRaw(cache, content)
                 /\ Raise("CaptchaBlockedError")
            [] pol.captcha_mode = "soft" ->
                 /\ cache' = Annotated(cache)
                 /\ pc' = "DomPersist"
                 /\ UNCHANGED << result, clock >>
            [] OTHER ->
                 /\ pc' = "DomPersist"
                 /\ UNCHANGED << cache, result, clock >>
    /\ UNCHANGED << pol, loc, netLog, robotsSeen, pageSeen, renders, pre, calls >>
    /\ UNCHANGED << prevEnd, dlVars, callVars >>

\* Pretty-print the raw DOM; a failure is fatal only under strict_dom.
DomPersist ==
    /\ pc = "DomPersist"
    /\ LET content == CHOOSE b \in loc.content : TRUE
       IN IF content.wellFormed
          THEN /\ cache' = PrettyRaw(cache, content)
               /\ pc' = "OptionalRender"
               /\ UNCHANGED << result, clock >>
          ELSE IF pol.strict_dom
          THEN /\ Raise("InvalidHtmlError")
               /\ UNCHANGED cache
          ELSE /\ pc' = "OptionalRender"
               /\ UNCHANGED << cache, result, clock >>
    /\ UNCHANGED << pol, loc, netLog, robotsSeen, pageSeen, renders, pre, calls >>
    /\ UNCHANGED << prevEnd, dlVars, callVars >>

\* Optional JS render: guarded by pol.render_js alone.
OptionalRender ==
    /\ pc = "OptionalRender"
    /\ IF pol.render_js
       THEN \E r \in RenderResults :
              /\ netLog' = Append(netLog, "render")
              /\ renders' = Append(renders, r)
              /\ cache' = RenderInto(cache, r)
              /\ loc' = [loc EXCEPT
                           !.rendered_bytes = IF RenderKept(r) THEN {r.html} ELSE {},
                           !.rendered_html = IF r.ok THEN {r.html} ELSE loc.rendered_html]
       ELSE UNCHANGED << cache, loc, netLog, renders >>
    /\ pc' = "ChooseSnapshot"
    /\ UNCHANGED << pol, result, robotsSeen, pageSeen, pre, clock, calls >>
    /\ UNCHANGED << prevEnd, dlVars, callVars >>

\* Choose snapshot: rendered when a render is held, else raw.
ChooseSnapshot ==
    /\ pc = "ChooseSnapshot"
    /\ IF pol.render_js /\ loc.rendered_bytes # {}
       THEN return_snapshot(cache, "rendered", loc.status, "html_rendered",
                            TreeRendered(cache), loc.rendered_bytes)
       ELSE return_snapshot(cache, "raw", loc.status, "html_raw",
                            TreeRaw(cache), loc.content)
    /\ UNCHANGED << pol, loc, netLog, robotsSeen, pageSeen, renders, pre, calls >>
    /\ UNCHANGED << prevEnd, dlVars, callVars >>

Next ==
    \/ StartCall
    \/ CacheCheck
    \/ OfflineGuard
    \/ RobotsCheck
    \/ RawFetch
    \/ CaptchaDetect
    \/ RenderFallback
    \/ CaptchaMode
    \/ DomPersist
    \/ OptionalRender
    \/ ChooseSnapshot

Spec == Init /\ [][Next]_vars

\* An unguarded file operation inside the with-block raises: read_bytes or the
\* meta.json write on a cache hit, write_bytes of the raw body after the page
\* GET, the soft-mode meta.json write, the final meta.json write.
UnexpectedFailure ==
    /\ \/ pc = "CacheCheck" /\ cache.html_raw # {}
       \/ pc = "RawFetch"
       \/ pc = "CaptchaMode" /\ pol.captcha_mode = "soft"
       \/ pc = "ChooseSnapshot"
    /\ IF pc = "RawFetch"
       THEN \E p \in PageResponses :
              /\ p.ok
              /\ netLog' = Append(netLog, "get")
              /\ pageSeen' = {p}
       ELSE UNCHANGED << netLog, pageSeen >>
    /\ \E exc \in Unexpected : Raise(fetcher_error_guard(exc, pol.strict_dom))
    /\ UNCHANGED << cache, pol, loc, robotsSeen, renders, pre, calls >>
    /\ UNCHANGED << prevEnd, dlVars, callVars >>

NextFault ==
    \/ Next
    \/ UnexpectedFailure

SpecFault == Init /\ [][NextFault]_vars


\* ------------------------------------------------- download_media: data
\* Optional values (x: int | None) are sets of at most one element.
None == {}

Some(x) == {x}

\* x or d / x if x is not None else d
OrElse(opt, d) == IF opt = {} THEN d ELSE CHOOSE x \in opt : TRUE

_IMAGE_KINDS == {"image"}

_DEFAULT_ALLOWED == {"image", "floorplan", "document", "video"}

_ICON_SUBSTRINGS ==
    { "favicon", "sprite", "logo", "brandmark", "glyph", "icon-", "/icons/",
      "/sprites/", "/logos/", "social-", "facebook", "twitter", "linkedin",
      "instagram", "pinterest", "youtube", "ytimg" }

_ICON_EXTS == {"ico", "svg"}

_IMAGE_EXTS == {"jpg", "jpeg", "png", "webp", "gif", "bmp", "tif", "tiff"}

SizeFloor == 1024

BytesFallback == 30 * 1024

DefaultMaxAspect == 4

PriorityFloor == 5

\* A URL: its name, the substrings of interest it contains, its path suffix.
Url(name, words, ext) == [ name |-> name, words |-> words, ext |-> ext ]

\* A Content-Type header value; NoType is a response without the header.
Type(major, minor) == [ major |-> major, minor |-> minor ]

NoType == Type("", "")

\* mimetypes.guess_extension, without the dot ("" for an unknown type).
guess_extension(ct) ==
    IF ct = Type("image", "jpeg") THEN "jpg"
    ELSE IF ct = Type("image", "png") THEN "png"
    ELSE IF ct = Type("application", "pdf") THEN "pdf"
    ELSE IF ct = Type("video", "mp4") THEN "mp4"
    ELSE ""

_guess_ext(content_type, url) ==
    IF content_type # NoType /\ guess_extension(content_type) # ""
    THEN guess_extension(content_type)
    ELSE IF url.ext # "" THEN url.ext ELSE "bin"

_kind_from_content_type(default, content_type) ==
    IF content_type = NoType THEN default
    ELSE IF content_type.major = "image" THEN "image"
    ELSE IF content_type.major = "video" THEN "video"
    ELSE IF content_type = Type("application", "pdf") THEN "document"
    ELSE default

_should_keep(kind, allowed) == kind \in allowed

_looks_like_icon_or_logo(url) ==
    \/ url.words \cap _ICON_SUBSTRINGS # {}
    \/ url.ext \in _ICON_EXTS

\* Pre-download heuristics; priority is in tenths.
_prefilter_candidate(c, allowed, min_w_hint, min_h_hint, min_bytes_hint) ==
    /\ _should_keep(c.kind, allowed)
    /\ ~(min_w_hint # None /\ c.width_hint # None
           /\ OrElse(c.width_hint, 0) < OrElse(min_w_hint, 0))
    /\ ~(min_h_hint # None /\ c.height_hint # None
           /\ OrElse(c.height_hint, 0) < OrElse(min_h_hint, 0))
    /\ ~(min_bytes_hint # None /\ c.bytes_hint # None
           /\ OrElse(c.bytes_hint, 0) < OrElse(min_bytes_hint, 0))
    /\ _looks_like_icon_or_logo(c.url) =>
          \/ c.page_index # None
          \/ c.priority >= PriorityFloor
          \/ OrElse(c.width_hint, 0) >= OrElse(min_w_hint, 0) * 2
          \/ OrElse(c.height_hint, 0) >= OrElse(min_h_hint, 0) * 2
          \/ OrElse(c.bytes_hint, 0) >= OrElse(min_bytes_hint, 0) * 2

Max(a, b) == IF a >= b THEN a ELSE b

Min(a, b) == IF a <= b THEN a ELSE b

_postfilter_image_dims_only(width, height, bytes_size, min_w, min_h, min_area, max_aspect) ==
    IF width # None /\ height # None
    THEN /\ OrElse(width, 0) >= OrElse(min_w, 0)
         /\ OrElse(height, 0) >= OrElse(min_h, 0)
    ELSE bytes_size >= BytesFallback

\* True when the image looks like a real photo. ar > max_aspect is compared
\* as max(w, h) > max_aspect * max(1, min(w, h)) (integers, same order).
_postfilter_image(width, height, bytes_size, min_w, min_h, min_area, max_aspect) ==
    LET effective_min_w == OrElse(min_w, 0)
        effective_min_h == OrElse(min_h, 0)
        area == OrElse(min_area, effective_min_w * effective_min_h)
        aspect == IF max_aspect < 1 THEN DefaultMaxAspect ELSE max_aspect
        w == OrElse(width, 0)
        h == OrElse(height, 0)
    IN IF width # None /\ height # None
       THEN /\ ~(w < effective_min_w \/ h < effective_min_h)
            /\ ~(w * h < area)
            /\ ~(Max(w, h) > aspect * Max(1, Min(w, h)))
       ELSE bytes_size >= BytesFallback


\* ------------------------------------------- download_media: environment
MaxCands == 2

MaxItems == 2

\* Response bodies: content hash, size in bytes, the size PIL decodes
\* (None when Image.open raises).
Blob(sha, size, w, h) == [ sha |-> sha, size |-> size, width |-> w, height |-> h ]

Photo == Blob("a", 40 * 1024, Some(200), Some(200))

Thumb == Blob("b", 2 * 1024, Some(50), Some(50))

Tiny == Blob("c", 512, Some(50), Some(50))

Banner == Blob("d", 40 * 1024, Some(1000), Some(100))

Pdf == Blob("e", 4 * 1024, None, None)

Clip == Blob("f", 40 * 1024, None, None)

\* What requests.get gives: ok = it returned a response; complete = the body
\* streams to its end (iter_content does not raise).
Response(ok, status, ct, body, complete) ==
    [ ok |-> ok, status |-> status, content_type |-> ct, body |-> body,
      complete |-> complete ]

TransportError == Response(FALSE, 0, NoType, Tiny, FALSE)

Jpeg == Type("image", "jpeg")

Responses ==
    { TransportError,
      Response(TRUE, 200, Jpeg, Photo, TRUE),
      Response(TRUE, 200, Jpeg, Photo, FALSE),
      Response(TRUE, 404, Jpeg, Photo, TRUE),
      Response(TRUE, 200, Jpeg, Thumb, TRUE),
      Response(TRUE, 200, NoType, Thumb, TRUE),
      Response(TRUE, 200, Type("image", "png"), Thumb, TRUE),
      Response(TRUE, 200, Jpeg, Tiny, TRUE),
      Response(TRUE, 200, Jpeg, Banner, TRUE),
      Response(TRUE, 200, Type("application", "pdf"), Pdf, TRUE),
      Response(TRUE, 200, NoType, Pdf, TRUE),
      Response(TRUE, 200, Type("video", "mp4"), Clip, TRUE) }

\* MediaCandidate; priority in tenths. Equality and hash are by (url, kind,
\* source); source is the same for all candidates here.
Candidate(url, kind, w, h, b, priority, page_index) ==
    [ url |-> url, kind |-> kind, width_hint |-> w, height_hint |-> h,
      bytes_hint |-> b, priority |-> priority, page_index |-> page_index ]

Plain(url, kind) == Candidate(url, kind, None, None, None, 0, None)

SameCandidate(c, d) == c.url = d.url /\ c.kind = d.kind

\* One URL whose path ends in .jpg, one whose path has no suffix.
PhotoUrls == { Url("photo1", {}, "jpg"), Url("asset2", {}, "") }

DownloadCandidates == { Plain(u, k) : u \in PhotoUrls, k \in {"image", "document"} }

SelectCandidates ==
    { Plain(Url("photo1", {}, "jpg"), "image"),
      Candidate(Url("photo1", {}, "jpg"), "image", Some(50), None, None, 0, None),
      Plain(Url("plan", {}, "pdf"), "document"),
      Plain(Url("logo1", {"logo"}, "png"), "image"),
      Plain(Url("vector", {}, "svg"), "image"),
      Candidate(Url("logo2", {"logo"}, "png"), "image", None, None, None, 5, None),
      Candidate(Url("logo3", {"logo"}, "png"), "image", None, None, None, 4, Some(0)),
      Candidate(Url("logo4", {"logo"}, "png"), "image", Some(200), None, None, 4, None),
      Candidate(Url("logo5", {"logo"}, "png"), "image", Some(120), Some(120), None, 4, None) }

CandidateLists(U) == UNION { [1..n -> U] : n \in 0..MaxCands }

_DEFAULT_MAX_ITEMS == 64

\* Arguments of download_media (policy fields and knobs).
Args(net, non200, max_items, allowed, hints, gates, aspect) ==
    [ allow_network |-> net, allow_non_200 |-> non200, max_items |-> max_items,
      allowed_kinds |-> allowed,
      min_width_hint |-> hints[1], min_height_hint |-> hints[2],
      min_bytes_hint |-> hints[3],
      min_width |-> gates[1], min_height |-> gates[2], min_area |-> gates[3],
      max_aspect_ratio |-> aspect ]

NoHints == << None, None, None >>

NoGates == << None, None, None >>

HintKnobs == { NoHints, << Some(100), Some(100), None >>,
               << Some(100), Some(100), Some(1000) >> }

GateKnobs == { NoGates, << Some(150), Some(150), None >>,
               << None, None, Some(30000) >> }

AllowedKnobs == { _DEFAULT_ALLOWED, {"image"}, {"document"} }

\* max_aspect_ratio: the default, and 0 for a value below 1.0.
AspectKnobs == { DefaultMaxAspect, 0 }

Offline == Args(FALSE, FALSE, _DEFAULT_MAX_ITEMS, _DEFAULT_ALLOWED, NoHints, NoGates, DefaultMaxAspect)

DownloadArgs ==
    { Offline } \cup
    { Args(TRUE, n, _DEFAULT_MAX_ITEMS, a, NoHints, g, x) :
        n \in BOOLEAN, a \in AllowedKnobs, g \in GateKnobs, x \in AspectKnobs }

SelectArgs ==
    { Offline } \cup
    { Args(TRUE, FALSE, m, a, h, NoGates, DefaultMaxAspect) :
        m \in 0..MaxItems, a \in AllowedKnobs, h \in HintKnobs }

Names(U) == { c.url.name : c \in U }

\* A call of download_media is about to run on an empty media_dir.
CallStarts ==
    /\ dpc = "start"
    /\ idx = 1
    /\ selected = {}
    /\ processed = {}
    /\ requested = <<>>
    /\ media = {}
    /\ parts = 0
    /\ assets = <<>>
    /\ respBound = FALSE
    /\ dresult = "none"

NoFetch ==
    /\ cache = EmptyCache
    /\ pol = DefaultPolicy
    /\ pc = "idle"
    /\ loc = NoLocals
    /\ result = NoResult
    /\ netLog = <<>>
    /\ robotsSeen = {}
    /\ pageSeen = {}
    /\ renders = <<>>
    /\ pre = EmptyCache
    /\ clock = 1
    /\ calls = 0
    /\ prevEnd = "other"

InitDownload ==
    /\ NoFetch
    /\ NoCall
    /\ CallStarts
    /\ args \in DownloadArgs
    /\ candidates \in CandidateLists(DownloadCandidates)
    /\ server \in [Names(DownloadCandidates) -> Responses]

InitSelect ==
    /\ NoFetch
    /\ NoCall
    /\ CallStarts
    /\ args \in SelectArgs
    /\ candidates \in CandidateLists(SelectCandidates)
    /\ \E r \in { TransportError, Response(TRUE, 200, Jpeg, Photo, TRUE) } :
          server = [n \in Names(SelectCandidates) |-> r]

\* --------------------------------------------------- download_media: steps
\* selected.add: a set of MediaCandidate keeps the first of two equal ones.
SelectedAdd(S, c) ==
    IF \E d \in S : SameCandidate(c, d) THEN S ELSE S \cup {c}

DownloadStartIgnoresPolicy ==
    /\ dpc = "start"
    /\ dpc' = "select"
    /\ UNCHANGED << fetchVars, args, candidates, server, idx, selected, processed,
                    requested, media, parts, assets, respBound, dresult >>
    /\ UNCHANGED callVars

\* if not policy.allow_network: return []
DownloadStart ==
    /\ dpc = "start"
    /\ IF ~args.allow_network
       THEN dpc' = "done" /\ dresult' = "returned"
       ELSE dpc' = "select" /\ UNCHANGED dresult
    /\ UNCHANGED << fetchVars, args, candidates, server, idx, selected, processed,
                    requested, media, parts, assets, respBound >>
    /\ UNCHANGED callVars

\* One turn of "for c in candidates": the pre-filter, the add, the max_items
\* test; the loop ends when the iterable is exhausted or on break.
SelectStep ==
    /\ dpc = "select"
    /\ IF idx > Len(candidates)
       THEN dpc' = "download" /\ UNCHANGED << idx, selected >>
       ELSE LET c == candidates[idx]
                sel == IF _prefilter_candidate(c, args.allowed_kinds,
                              args.min_width_hint, args.min_height_hint,
                              args.min_bytes_hint)
                       THEN SelectedAdd(selected, c)
                       ELSE selected
            IN /\ selected' = sel
               /\ IF Cardinality(sel) >= args.max_items
                  THEN dpc' = "download" /\ idx' = idx
                  ELSE dpc' = dpc /\ idx' = idx + 1
    /\ UNCHANGED << fetchVars, args, candidates, server, processed, requested,
                    media, parts, assets, respBound, dresult >>
    /\ UNCHANGED callVars

ClosedUnsavedStatusOnly(cand, r) ==
    ~(200 <= r.status /\ r.status < 400) /\ ~args.allow_non_200

\* resp.close(); continue before anything is written: a status outside
\* 200..399 without allow_non_200, or a coerced kind that is not allowed.
ClosedUnsaved(cand, r) ==
    \/ ~(200 <= r.status /\ r.status < 400) /\ ~args.allow_non_200
    \/ ~_should_keep(_kind_from_content_type(cand.kind, r.content_type),
                     args.allowed_kinds)

\* One turn of "for cand in selected" (a set: any order), from requests.get
\* to assets.append or the continue that ends the turn.
DownloadStep ==
    /\ dpc = "download"
    /\ \E cand \in selected \ processed :
         LET r == server[cand.url.name]
             content_type == r.content_type
             final_kind == _kind_from_content_type(cand.kind, content_type)
             ext == _guess_ext(content_type, cand.url)
             digest == r.body.sha
             present == \E f \in media : f.sha256 = digest /\ f.ext = ext
             stored == IF present THEN media
                       ELSE media \cup {[sha256 |-> digest, ext |-> ext,
                                         content |-> r.body]}
             final == CHOOSE f \in stored : f.sha256 = digest /\ f.ext = ext
             probed == /\ final_kind \in _IMAGE_KINDS
                       /\ (content_type.major = "image" \/ ext \in _IMAGE_EXTS)
             width == IF probed THEN final.content.width ELSE None
             height == IF probed THEN final.content.height ELSE None
         IN /\ processed' = processed \cup {cand}
            /\ requested' = Append(requested, cand.url)
            /\ respBound' = (respBound \/ r.ok)
            /\ IF ~r.ok \/ ClosedUnsaved(cand, r)
               THEN UNCHANGED << media, parts, assets >>
               ELSE IF ~r.complete
               THEN parts' = parts + 1 /\ UNCHANGED << media, assets >>
               ELSE IF final.content.size < SizeFloor
               THEN media' = stored \ {final} /\ UNCHANGED << parts, assets >>
               ELSE IF probed /\ ~_postfilter_image(width, height, final.content.size,
                                      args.min_width, args.min_height,
                                      args.min_area, args.max_aspect_ratio)
               THEN media' = stored \ {final} /\ UNCHANGED << parts, assets >>
               ELSE /\ media' = stored
                    /\ assets' = Append(assets,
                          [ url |-> cand.url, kind |-> final_kind,
                            content_type |-> content_type, sha256 |-> digest,
                            ext |-> ext, bytes_size |-> final.content.size,
                            width |-> width, height |-> height ])
                    /\ UNCHANGED parts
    /\ UNCHANGED << fetchVars, args, candidates, server, dpc, idx, selected,
                    dresult >>
    /\ UNCHANGED callVars

\* After the loop: resp.close() and return assets. resp is a local that only
\* a requests.get that returned has assigned.
DownloadReturn ==
    /\ dpc = "download"
    /\ selected \ processed = {}
    /\ dpc' = "done"
    /\ dresult' = IF respBound THEN "returned" ELSE "UnboundLocalError"
    /\ UNCHANGED << fetchVars, args, candidates, server, idx, selected, processed,
                    requested, media, parts, assets, respBound >>
    /\ UNCHANGED callVars

NextDownload ==
    \/ DownloadStart
    \/ SelectStep
    \/ DownloadStep
    \/ DownloadReturn

SpecDownload == InitDownload /\ [][NextDownload]_vars

SpecSelect == InitSelect /\ [][NextDownload]_vars


\* ------------------------------------- download_media: concurrent workers
\* Several download_media calls run at once on one media_dir; each is inside
\* the loop turn of a candidate whose GET returned the same complete 200
\* response. A step is one file-system call of lines 283-351.
MaxWorkers == 2

Workers == 1..MaxWorkers

RaceResponses ==
    { r \in Responses : r.ok /\ r.complete /\ r.status = 200 /\ r.body # Clip }

RaceInputs ==
    [ args : { Args(TRUE, FALSE, _DEFAULT_MAX_ITEMS, _DEFAULT_ALLOWED, NoHints, g,
                    DefaultMaxAspect) : g \in GateKnobs },
      cand : [Workers -> { Plain(Url("photo1", {}, "jpg"), k) : k \in {"image", "document"} }],
      resp : RaceResponses ]

\* A worker: where it is, its dl_*.part file ("none", "partial", "full",
\* "gone"), what final_path.exists() answered, what the probe decoded, and
\* whether it appended an asset.
FreshWorker ==
    [ pc |-> "open", tmp |-> "none", exists |-> FALSE, decoded |-> FALSE,
      kept |-> FALSE ]

InitRace ==
    /\ NoFetch
    /\ NoDownload
    /\ inp \in RaceInputs
    /\ st = [ worker |-> [w \in Workers |-> FreshWorker], files |-> {} ]
    /\ at = "race"

\* <digest>.<ext> of worker w's response.
FinalName(w) ==
    << inp.resp.body.sha, _guess_ext(inp.resp.content_type, inp.cand[w].url) >>

FinalExists(w) == \E f \in st.files : f.name = FinalName(w)

FinalKind(w) == _kind_from_content_type(inp.cand[w].kind, inp.resp.content_type)

Probed(w) ==
    /\ FinalKind(w) \in _IMAGE_KINDS
    /\ (inp.resp.content_type.major = "image" \/ FinalName(w)[2] \in _IMAGE_EXTS)

Move(w, to) == [st EXCEPT !.worker[w].pc = to]

RaceUnchanged == UNCHANGED << fetchVars, dlVars, inp, at >>

\* NamedTemporaryFile(prefix="dl_", suffix=".part", delete=False)
RaceOpen(w) ==
    /\ at = "race" /\ st.worker[w].pc = "open"
    /\ st' = [st EXCEPT !.worker[w].pc = "write", !.worker[w].tmp = "partial"]
    /\ RaceUnchanged

RaceWriteInPlace(w) ==
    /\ at = "race" /\ st.worker[w].pc = "write"
    /\ st' = [st EXCEPT !.worker[w].pc = "hash", !.worker[w].tmp = "full",
                        !.files = { f \in st.files : f.name # FinalName(w) }
                                    \cup {[name |-> FinalName(w), state |-> "partial"]}]
    /\ RaceUnchanged

\* The chunks are written to the temp file and the with-block closes it.
RaceWrite(w) ==
    /\ at = "race" /\ st.worker[w].pc = "write"
    /\ st' = [st EXCEPT !.worker[w].pc = "hash", !.worker[w].tmp = "full"]
    /\ RaceUnchanged

\* digest = _compute_sha256_file(tmp_path); final_path.exists()
RaceExists(w) ==
    /\ at = "race" /\ st.worker[w].pc = "hash"
    /\ st' = [st EXCEPT !.worker[w].pc = "place",
                        !.worker[w].exists = FinalExists(w)]
    /\ RaceUnchanged

\* tmp_path.unlink(missing_ok=True) or tmp_path.replace(final_path)
RacePlace(w) ==
    /\ at = "race" /\ st.worker[w].pc = "place"
    /\ IF st.worker[w].exists
       THEN st' = [st EXCEPT !.worker[w].pc = "floor", !.worker[w].tmp = "gone"]
       ELSE st' = [st EXCEPT !.worker[w].pc = "floor", !.worker[w].tmp = "gone",
                      !.files = { f \in st.files : f.name # FinalName(w) }
                                  \cup {[name |-> FinalName(w),
                                         state |-> st.worker[w].tmp]}]
    /\ RaceUnchanged

\* final_path.stat().st_size < 1024: unlink and continue; stat of a missing
\* file raises and the except clause continues.
RaceFloor(w) ==
    /\ at = "race" /\ st.worker[w].pc = "floor"
    /\ IF ~FinalExists(w)
       THEN st' = Move(w, "done")
       ELSE IF inp.resp.body.size < SizeFloor
       THEN st' = [st EXCEPT !.worker[w].pc = "done",
                      !.files = { f \in st.files : f.name # FinalName(w) }]
       ELSE st' = Move(w, IF Probed(w) THEN "probe" ELSE "append")
    /\ RaceUnchanged

\* Image.open(final_path): the size is decoded when the file is there and
\* is an image; any failure leaves width = height = None.
RaceProbe(w) ==
    /\ at = "race" /\ st.worker[w].pc = "probe"
    /\ st' = [st EXCEPT !.worker[w].pc = "gate",
                        !.worker[w].decoded =
                            FinalExists(w) /\ inp.resp.body.width # None]
    /\ RaceUnchanged

\* _postfilter_image(width, height, final_path.stat().st_size, ...), then
\* final_path.unlink(missing_ok=True) when it answers False.
RaceGate(w) ==
    /\ at = "race" /\ st.worker[w].pc = "gate"
    /\ LET b == inp.resp.body
           width == IF st.worker[w].decoded THEN b.width ELSE None
           height == IF st.worker[w].decoded THEN b.height ELSE None
       IN IF ~FinalExists(w)
          THEN st' = Move(w, "done")
          ELSE IF ~_postfilter_image(width, height, b.size, inp.args.min_width,
                                     inp.args.min_height, inp.args.min_area,
                                     inp.args.max_aspect_ratio)
          THEN st' = [st EXCEPT !.worker[w].pc = "done",
                         !.files = { f \in st.files : f.name # FinalName(w) }]
          ELSE st' = Move(w, "append")
    /\ RaceUnchanged

\* assets.append(MediaAsset(..., bytes_size=final_path.stat().st_size, ...))
RaceAppend(w) ==
    /\ at = "race" /\ st.worker[w].pc = "append"
    /\ st' = [st EXCEPT !.worker[w].pc = "done",
                        !.worker[w].kept = FinalExists(w)]
    /\ RaceUnchanged

NextRace ==
    \E w \in Workers :
        \/ RaceOpen(w)
        \/ RaceWrite(w)
        \/ RaceExists(w)
        \/ RacePlace(w)
        \/ RaceFloor(w)
        \/ RaceProbe(w)
        \/ RaceGate(w)
        \/ RaceAppend(w)

SpecRace == InitRace /\ [][NextRace]_vars


\* ------------------------------------------------- HtmlMediaFinder.find

MaxRefs == 3

\* _IMG_EXTS and _VIDEO_EXTS, without the dot.
_guess_kind_from_ext(url) ==
    IF url.ext \in {"jpg", "jpeg", "png", "webp", "gif", "bmp", "tif", "tiff"}
    THEN "image"
    ELSE IF url.ext \in {"mp4", "webm", "ogg", "mov", "m4v"} THEN "video"
    ELSE "other"

\* One reference of the document: the markup it sits in and the URL it
\* names, already absolutized against the page URL.
Refs ==
    [ tag : {"og", "jsonld", "srcset", "src", "source", "bg"},
      url : { Url("photo1", {}, "jpg"), Url("clip", {}, "mp4") } ]

\* The MediaCandidate find() builds for one reference.
MediaCandidateOf(ref) ==
    [ url |-> ref.url,
      kind |-> IF ref.tag \in {"og", "srcset", "src"} THEN "image"
               ELSE _guess_kind_from_ext(ref.url),
      source |-> "html",
      priority |-> CASE ref.tag = "og" -> 1000
                     [] ref.tag = "jsonld" -> 900
                     [] ref.tag = "srcset" -> 800
                     [] ref.tag = "src" -> 700
                     [] ref.tag = "source" -> 600
                     [] ref.tag = "bg" -> 500 ]

\* The candidates list before deduplication: find() scans the document
\* once per kind of markup, so the list is grouped by section, each section
\* in document order (srcset and src of <img> belong to one section).
Collected(doc) ==
    LET Section(tags) ==
            LET In(r) == r.tag \in tags
                picked == SelectSeq(doc, In)
            IN  [ i \in 1..Len(picked) |-> MediaCandidateOf(picked[i]) ]
    IN  Section({"og"}) \o Section({"jsonld"}) \o Section({"srcset", "src"})
            \o Section({"source"}) \o Section({"bg"})

InitFinder ==
    /\ NoFetch
    /\ NoDownload
    /\ inp \in UNION { [1..n -> Refs] : n \in 0..MaxRefs }
    /\ st = << >>
    /\ at = "find"

FindCollect ==
    /\ at = "find"
    /\ st' = [ candidates |-> Collected(inp), i |-> 1, best_by_url |-> {} ]
    /\ at' = "dedupe"
    /\ UNCHANGED << fetchVars, dlVars, inp >>

\* One turn of the loop over candidates; best_by_url is held as the set of
\* its values, which the key keeps to one per URL.  The variant keeps the
\* first candidate of a URL whatever comes later.
FindDedupeFirstWins ==
    /\ at = "dedupe"
    /\ st.i <= Len(st.candidates)
    /\ LET c == st.candidates[st.i]
           prev == { p \in st.best_by_url : p.url = c.url }
       IN  st' = [ st EXCEPT !.i = @ + 1,
                             !.best_by_url =
                                 IF prev = {} THEN @ \cup {c} ELSE @ ]
    /\ UNCHANGED << fetchVars, dlVars, inp, at >>

FindDedupe ==
    /\ at = "dedupe"
    /\ st.i <= Len(st.candidates)
    /\ LET c == st.candidates[st.i]
           prev == { p \in st.best_by_url : p.url = c.url }
       IN  st' = [ st EXCEPT !.i = @ + 1,
                             !.best_by_url =
                                 IF prev = {}
                                    \/ \A p \in prev : c.priority > p.priority
                                 THEN (@ \ prev) \cup {c}
                                 ELSE @ ]
    /\ UNCHANGED << fetchVars, dlVars, inp, at >>

\* set(best_by_url.values()): equality of MediaCandidate is by
\* (url, kind, source), and the values already differ in their URL.
FindReturn ==
    /\ at = "dedupe"
    /\ st.i > Len(st.candidates)
    /\ st' = [ st EXCEPT !.best_by_url = {} ] @@ [ result |-> st.best_by_url ]
    /\ at' = "found"
    /\ UNCHANGED << fetchVars, dlVars, inp >>

NextFinder == FindCollect \/ FindDedupe \/ FindReturn

SpecFinder == InitFinder /\ [][NextFinder]_vars


\* -------------------------------------------------- find_media_candidates

MaxFinders == 2

\* MediaCandidate.__hash__ / __eq__: identity is (url, kind, source).
Identity(c) == << c.url, c.kind, c.source >>

\* What one registered finder does when called: it raises, or it returns a
\* result whose candidates are a set under that identity.
FinderOutcomes ==
    LET found ==
            { MediaCandidateOf([tag |-> "og", url |-> Url("photo1", {}, "jpg")]),
              MediaCandidateOf([tag |-> "src", url |-> Url("photo1", {}, "jpg")]),
              [ MediaCandidateOf([tag |-> "source", url |-> Url("clip", {}, "mp4")])
                    EXCEPT !.source = "feed" ] }
    IN  { [raises |-> TRUE, candidates |-> {}] }
            \cup { [raises |-> FALSE, candidates |-> S] :
                     S \in { T \in SUBSET found :
                               \A c, e \in T : Identity(c) = Identity(e) => c = e } }

InitFanOut ==
    /\ NoFetch
    /\ NoDownload
    /\ inp \in UNION { [1..n -> FinderOutcomes] : n \in 0..MaxFinders }
    /\ st = [ all_candidates |-> {}, called |-> 0, raised |-> FALSE ]
    /\ at = "fanout"

\* The variant lets the finder's exception leave find_media_candidates.
FanOutStepPropagates ==
    /\ at = "fanout"
    /\ st.called < Len(inp)
    /\ LET res == inp[st.called + 1]
       IN  IF res.raises
           THEN /\ st' = [ st EXCEPT !.called = @ + 1, !.raised = TRUE ]
                /\ at' = "merged"
           ELSE /\ st' = [ st EXCEPT !.called = @ + 1,
                                     !.all_candidates = @ \cup
                                         { c \in res.candidates :
                                             \A a \in st.all_candidates :
                                                 Identity(a) # Identity(c) } ]
                /\ at' = at
    /\ UNCHANGED << fetchVars, dlVars, inp >>

\* One turn of the loop over the finders: `|=` keeps the element already in
\* the set when an equal one arrives; `except Exception: continue`.
FanOutStep ==
    /\ at = "fanout"
    /\ st.called < Len(inp)
    /\ LET res == inp[st.called + 1]
       IN  st' = [ st EXCEPT !.called = @ + 1,
                             !.all_candidates =
                                 IF res.raises THEN @
                                 ELSE @ \cup { c \in res.candidates :
                                                 \A a \in st.all_candidates :
                                                     Identity(a) # Identity(c) } ]
    /\ UNCHANGED << fetchVars, dlVars, inp, at >>

FanOutReturn ==
    /\ at = "fanout"
    /\ st.called = Len(inp)
    /\ at' = "merged"
    /\ UNCHANGED << fetchVars, dlVars, inp, st >>

NextFanOut == FanOutStep \/ FanOutReturn

SpecFanOut == InitFanOut /\ [][NextFanOut]_vars


\* -------------------------------------------------------------- rank_hero

MaxAssets == 3

\* signals[sha256] of one asset.  The sha256 digests are the numbers
\* 1..MaxAssets, ordered as equal-width hex strings are.  NoSignals is what
\* the .get defaults of rank_hero read for an asset without an entry.
NoSignals ==
    [ area |-> 0, sharpness |-> 0, contrast |-> 0, is_duplicate |-> FALSE ]

HeroSignals ==
    [ area : {1, 2}, sharpness : {1, 2}, contrast : {1, 2},
      is_duplicate : BOOLEAN ] \cup {NoSignals}

\* norm(x, xs) as the fraction << numerator, denominator >>.
norm(x, xs) ==
    LET mn == CHOOSE m \in xs : \A y \in xs : m <= y
        mx == CHOOSE m \in xs : \A y \in xs : m >= y
    IN  IF mx <= mn THEN << 0, 1 >> ELSE << x - mn, mx - mn >>

\* The variant scores by contrast alone.
HeroScoreContrastOnly(s, all) ==
    LET c == norm(s.contrast, { t.contrast : t \in all })
    IN  20 * c[1] - (IF s.is_duplicate THEN 5 * c[2] ELSE 0)

\* score = 0.5 area_norm + 0.4 sharpness_norm + 0.1 contrast_norm, less 0.25
\* for a duplicate, times 20 and the three denominators, which are the same
\* for every asset of one call: an integer that orders as the score does.
HeroScore(s, all) ==
    LET a == norm(s.area, { t.area : t \in all })
        h == norm(s.sharpness, { t.sharpness : t \in all })
        c == norm(s.contrast, { t.contrast : t \in all })
    IN  10 * a[1] * h[2] * c[2] + 8 * h[1] * a[2] * c[2] + 2 * c[1] * a[2] * h[2]
            - (IF s.is_duplicate THEN 5 * a[2] * h[2] * c[2] ELSE 0)

\* The variant compares the scores only.
TupleGreaterScoreOnly(t, u) == t[1] > u[1]

\* tie_break > best_tuple on (score, area, sha256).
TupleGreater(t, u) ==
    \/ t[1] > u[1]
    \/ t[1] = u[1] /\ t[2] > u[2]
    \/ t[1] = u[1] /\ t[2] = u[2] /\ t[3] > u[3]

rank_hero(seq, signals) ==
    IF seq = << >> THEN None
    ELSE LET all == { signals[seq[k]] : k \in 1..Len(seq) }
             tie_break ==
                 [ a \in { seq[k] : k \in 1..Len(seq) } |->
                     << HeroScore(signals[a], all), signals[a].area, a >> ]
             best[k \in 1..Len(seq)] ==
                 IF k = 1 THEN seq[1]
                 ELSE LET prev == best[k - 1]
                      IN  IF TupleGreater(tie_break[seq[k]], tie_break[prev])
                          THEN seq[k]
                          ELSE prev
         IN  Some(best[Len(seq)])

\* The signals of a fixed set of assets with distinct digests.
InitHero ==
    /\ NoFetch
    /\ NoDownload
    /\ inp \in UNION { [S -> HeroSignals] : S \in SUBSET (1..MaxAssets) }
    /\ st = << >>
    /\ at = "rank"

\* One call of rank_hero, with the assets in any order.
RankHero ==
    /\ at = "rank"
    /\ \E seq \in [1..Cardinality(DOMAIN inp) -> DOMAIN inp] :
           /\ \A j, k \in DOMAIN seq : seq[j] = seq[k] => j = k
           /\ st' = [ result |-> rank_hero(seq, inp) ]
    /\ at' = "ranked"
    /\ UNCHANGED << fetchVars, dlVars, inp >>

NextHero == RankHero

SpecHero == InitHero /\ [][NextHero]_vars


\* ------------------------------------------------------------ cache_paths

MaxPathCalls == 3

\* A path: absolute or relative, and its components.
Path(abs, names) == [ abs |-> abs, parts |-> names ]

\* hashlib's hexdigest of a URL, as << first 16 characters, the rest >>; the
\* third URL collides with the first on the prefix.
_sha256(url) ==
    CASE url = "listing/123" -> << "0a1b", "77" >>
      [] url = "listing/456" -> << "9c8d", "42" >>
      [] url = "listing/789" -> << "0a1b", "e5" >>

\* Where cache_paths can run: the base_dir it is given (an absolute
\* directory, FetchPolicy's relative default, or a symbolic link to the
\* first) and the working directory of the process.
PathInputs ==
    [ base_dir : { Path(TRUE, << "srv", "cache" >>),
                   Path(FALSE, << "data", "cache" >>),
                   Path(TRUE, << "var", "link" >>) },
      cwd : { << "app" >>, << "home", "me" >> } ]

\* Path.resolve(): made absolute against the working directory, symbolic
\* links followed (/var/link points to /srv/cache).
resolve(p, cwd) ==
    LET a == IF p.abs THEN p.parts ELSE cwd \o p.parts
    IN  IF Len(a) >= 2 /\ SubSeq(a, 1, 2) = << "var", "link" >>
        THEN Path(TRUE, << "srv", "cache" >> \o SubSeq(a, 3, Len(a)))
        ELSE Path(TRUE, a)

cache_paths(url, base_dir, cwd) ==
    LET h == _sha256(url)[1]
        root == resolve(Path(base_dir.abs, Append(base_dir.parts, h)), cwd)
        under(name) == Path(TRUE, Append(root.parts, name))
    IN  [ root |-> root,
          html_raw |-> under("index.raw.html"),
          html_rendered |-> under("index.rendered.html"),
          meta |-> under("meta.json"),
          media_dir |-> under("media") ]

InitPaths ==
    /\ NoFetch
    /\ NoDownload
    /\ inp \in PathInputs
    /\ st = [ dirs |-> {}, returned |-> << >> ]
    /\ at = "paths"

\* The variant returns the paths without creating media_dir.
CachePathsNoMkdir ==
    /\ at = "paths"
    /\ Len(st.returned) < MaxPathCalls
    /\ \E url \in {"listing/123", "listing/456", "listing/789"} :
           LET paths == cache_paths(url, inp.base_dir, inp.cwd)
           IN  st' = [ st EXCEPT !.returned =
                                     Append(@, [url |-> url, paths |-> paths]) ]
    /\ UNCHANGED << fetchVars, dlVars, inp, at >>

\* One call: media_dir.mkdir(parents=True, exist_ok=True) creates media_dir
\* and the directories above it.
CachePaths ==
    /\ at = "paths"
    /\ Len(st.returned) < MaxPathCalls
    /\ \E url \in {"listing/123", "listing/456", "listing/789"} :
           LET paths == cache_paths(url, inp.base_dir, inp.cwd)
               made == { Path(TRUE, SubSeq(paths.media_dir.parts, 1, n)) :
                           n \in 1..Len(paths.media_dir.parts) }
           IN  st' = [ dirs |-> st.dirs \cup made,
                       returned |-> Append(st.returned,
                                           [url |-> url, paths |-> paths]) ]
    /\ UNCHANGED << fetchVars, dlVars, inp, at >>

NextPaths == CachePaths

SpecPaths == InitPaths /\ [][NextPaths]_vars


\* ------------------------------------------------ enrich_with_intelligence

MaxImages == 3

PHASH_THRESHOLD == 10

\* Perceptual hashes, as the set of the bits that are 1: pairwise 0, 8 or 16
\* bits apart.
PHashes == { 1..n : n \in {0, 8, 16} }

\* bit_count of the xor of the two hashes.
hamming_distance_hex(h1, h2) == Cardinality((h1 \ h2) \cup (h2 \ h1))

\* phashes after step 1, in insertion order: image k has digest k and
\* hash inp[k].
InitCluster ==
    /\ NoFetch
    /\ NoDownload
    /\ inp \in UNION { [1..n -> PHashes] : n \in 0..MaxImages }
    /\ st = [ i |-> 1, used |-> {}, clusters |-> {}, is_duplicate |-> {} ]
    /\ at = "cluster"

\* One turn of the outer loop over sha_list, the inner loop included.
ClusterStep ==
    /\ at = "cluster"
    /\ st.i <= Len(inp)
    /\ LET s1 == st.i
           cluster == {s1} \cup
               { s2 \in (s1 + 1)..Len(inp) :
                   /\ s2 \notin st.used
                   /\ hamming_distance_hex(inp[s1], inp[s2]) <= PHASH_THRESHOLD }
           many == Cardinality(cluster) > 1
       IN  st' = IF s1 \in st.used
                 THEN [ st EXCEPT !.i = @ + 1 ]
                 ELSE [ i |-> st.i + 1,
                        used |-> st.used \cup cluster,
                        clusters |-> IF many THEN st.clusters \cup {cluster}
                                     ELSE st.clusters,
                        is_duplicate |-> IF many THEN st.is_duplicate \cup cluster
                                         ELSE st.is_duplicate ]
    /\ UNCHANGED << fetchVars, dlVars, inp, at >>

\* insights.duplicates = clusters
ClusterReturn ==
    /\ at = "cluster"
    /\ st.i > Len(inp)
    /\ at' = "clustered"
    /\ UNCHANGED << fetchVars, dlVars, inp, st >>

NextCluster == ClusterStep \/ ClusterReturn

SpecCluster == InitCluster /\ [][NextCluster]_vars


\* ----------------------------------------------------------------- claims
InRange(x, seq) == \E i \in DOMAIN seq : seq[i] = x

CacheMiss == pre.html_raw = {} /\ pre.html_rendered = {}

\* C1: on a call that found neither a raw nor a rendered artifact and whose
\* policy forbids the network, no network call is ever issued, no raw or
\* rendered artifact appears, and the call ends with OfflineRequiredError.
C1_OfflineGuard ==
    (pc # "idle" /\ CacheMiss /\ ~pol.allow_network) =>
        /\ netLog = <<>>
        /\ cache.html_raw = {} /\ cache.html_rendered = {}
        /\ pc = "done" => result = Raised("OfflineRequiredError")

C1_Witness ==
    /\ pc = "done" /\ CacheMiss /\ ~pol.allow_network
    /\ result = Raised("OfflineRequiredError")

\* C2: a call that finds the raw artifact in the cache issues no network call
\* under any policy and returns a Snapshot whose html_path names an artifact
\* that was already cached, with its cached content; with render_js unset it
\* is the raw artifact.
C2_CacheFirst ==
    (pc # "idle" /\ pre.html_raw # {}) =>
        /\ netLog = <<>>
        /\ cache.html_raw = pre.html_raw /\ cache.html_rendered = pre.html_rendered
        /\ pc = "done" =>
             /\ result.kind = "snapshot"
             /\ \/ result.html_path = "html_raw" /\ result.bytes = pre.html_raw
                \/ /\ result.html_path = "html_rendered"
                   /\ pre.html_rendered # {}
                   /\ result.bytes = pre.html_rendered
             /\ ~pol.render_js => result.html_path = "html_raw"

C2_Witness ==
    /\ pc = "done" /\ pre.html_raw # {} /\ ~pol.allow_network /\ ~pol.render_js
    /\ result.kind = "snapshot" /\ result.html_path = "html_raw"

\* The retrieved robots.txt disallows the policy's user agent for the URL.
Disallows(r) == r.ok /\ r.status < ErrorStatusFloor /\ ~r.empty /\ ~can_fetch(r.text)

\* C3: when robots are respected, every page GET is preceded by the robots.txt
\* request; and when the retrieved robots.txt disallows the user agent the call
\* has ended with DisallowedByRobotsError, no page GET was issued and no raw
\* artifact was written.
C3_RobotsEnforcement ==
    /\ \A i \in DOMAIN netLog :
         (netLog[i] = "get" /\ pol.respect_robots) =>
             \E j \in 1..(i - 1) : netLog[j] = "robots"
    /\ \A r \in robotsSeen :
         Disallows(r) =>
             /\ pc = "done" /\ result = Raised("DisallowedByRobotsError")
             /\ ~InRange("get", netLog)
             /\ pageSeen = {}
             /\ cache.html_raw = {}

C3_Witness ==
    /\ pc = "done" /\ pol.allow_network /\ pol.respect_robots /\ CacheMiss
    /\ \E r \in robotsSeen : Disallows(r)
    /\ result = Raised("DisallowedByRobotsError")

\* C4: once the page GET of the current call has returned a response, the raw
\* artifact holds exactly that response's body, in every later state of the
\* call and whatever the call's outcome.
C4_RawPersisted ==
    \A p \in pageSeen : p.ok => cache.html_raw = {p.body}

C4_Witness ==
    /\ pc = "done"
    /\ \E p \in pageSeen : p.ok /\ p.status >= ErrorStatusFloor
    /\ result = Raised("NetworkError")
    /\ cache.html_raw # {}

\* The first render of the call produced a page with enough visible text.
FirstRenderReal ==
    /\ pol.render_js
    /\ Len(renders) >= 1
    /\ renders[1].ok
    /\ renders[1].html.textLen >= pol.min_body_text

MetaAnnotated == \E m \in cache.meta : m.captcha_suspected

\* C5: captcha decision, for calls without strict_dom (so that no parse failure
\* interferes).  When the raw response was WAF/CAPTCHA-suspected: if render_js
\* is set and the rendered HTML is real content the rendered Snapshot is
\* returned whatever captcha_mode is; otherwise strict ends with
\* CaptchaBlockedError, soft returns a Snapshot of the raw body with
\* captcha_suspected in meta.json, off returns a Snapshot of the raw body
\* without the annotation.
C5_CaptchaDecision ==
    (pc = "done" /\ loc.raw_looks_captcha /\ ~pol.strict_dom) =>
        IF FirstRenderReal
        THEN /\ result.kind = "snapshot"
             /\ result.mode = "rendered"
             /\ result.bytes = {renders[1].html}
        ELSE CASE pol.captcha_mode = "strict" ->
                    result = Raised("CaptchaBlockedError")
               [] pol.captcha_mode = "soft" ->
                    /\ result.kind = "snapshot"
                    /\ result.html_path = "html_raw"
                    /\ result.bytes = loc.content
                    /\ MetaAnnotated
               [] OTHER ->
                    /\ result.kind = "snapshot"
                    /\ result.html_path = "html_raw"
                    /\ result.bytes = loc.content
                    /\ ~MetaAnnotated

\* The scenario of C6: empty cache, network allowed, captcha_mode strict, the
\* page GET answered 503 with a body containing "captcha".
C6_Scenario(allow_non_200) ==
    /\ pc = "done"
    /\ pre = EmptyCache
    /\ pol = [DefaultPolicy EXCEPT !.allow_network = TRUE, !.captcha_mode = "strict",
                                   !.allow_non_200 = allow_non_200]
    /\ \E p \in pageSeen : p.ok /\ p.status = 503 /\ "captcha" \in p.body.words

\* C6 as stated: with every other policy field at its default the scenario
\* ends with CaptchaBlockedError.
C6_AsStated == C6_Scenario(FALSE) => result = Raised("CaptchaBlockedError")

\* C6 amended: the scenario ends with CaptchaBlockedError when allow_non_200
\* is set as well, and with NetworkError when allow_non_200 has its default.
C6_CaptchaStrict503 ==
    /\ C6_Scenario(TRUE) => result = Raised("CaptchaBlockedError")
    /\ C6_Scenario(FALSE) => result = Raised("NetworkError")

C6_Witness == C6_Scenario(TRUE) /\ result = Raised("CaptchaBlockedError")

\* C7: the headless render runs at most once per fetch_html call.
C7_RenderAtMostOnce == Len(renders) <= 1

\* robots.txt could not be retrieved, or answered >= 400 or with an empty body.
RobotsUnavailable(r) == ~r.ok \/ r.status >= ErrorStatusFloor \/ r.empty

\* C8: when robots.txt is unavailable the URL is treated as allowed: the call
\* goes on to the page GET.
C8_RobotsBestEffort ==
    \A r \in robotsSeen :
        RobotsUnavailable(r) => (pc = "RawFetch" \/ InRange("get", netLog))

C10_StrictDomGating ==
    (pc = "done" /\ pageSeen # {}) =>
        /\ pol.strict_dom =>
             /\ (\E i \in DOMAIN renders : renders[i].ok /\ ~renders[i].html.wellFormed)
                    => result = Raised("InvalidHtmlError")
             /\ result.kind = "snapshot" => \A b \in result.bytes : b.wellFormed
        /\ ~pol.strict_dom => result.error # "InvalidHtmlError"

\* C11: every call that returns an HtmlSnapshot leaves meta.json with
\* last_fetched_at, status_code and mode equal to the snapshot's fetched_at,
\* status_code and mode, and with a first_fetched_at; a first_fetched_at that
\* is already recorded is never changed by any step of any later call.
C11_SnapshotMeta ==
    (pc = "done" /\ result.kind = "snapshot") =>
        \E m \in cache.meta :
            /\ m.first_fetched_at # 0
            /\ m.last_fetched_at = result.fetched_at
            /\ m.status_code = result.status_code
            /\ m.mode = result.mode

C11_FirstKept ==
    \A m \in cache.meta :
        m.first_fetched_at # 0 =>
            \E n \in cache'.meta : n.first_fetched_at = m.first_fetched_at

C11_MetadataMerge == [](C11_SnapshotMeta) /\ [][C11_FirstKept]_vars

\* A second call returned a snapshot over the metadata of an earlier one.
C11_Witness ==
    /\ calls = 2 /\ pc = "done" /\ result.kind = "snapshot"
    /\ \E m \in cache.meta :
          /\ m.first_fetched_at # 0
          /\ m.first_fetched_at < m.last_fetched_at
          /\ m.last_fetched_at = result.fetched_at

\* ------------------------------------------------- claims, download_media
Returned == dpc = "done" /\ dresult = "returned"

\* C12: with policy.allow_network = false the call never reaches the
\* selection or the download loop, issues no GET, and ends by returning the
\* empty list, whatever the candidate list.
C12_OfflineReturnsEmpty ==
    ~args.allow_network =>
        /\ dpc \in {"off", "start", "done"}
        /\ requested = <<>>
        /\ dpc = "done" => (dresult = "returned" /\ assets = <<>>)

\* An offline call over a non-empty candidate list has returned.
C12_Witness ==
    /\ ~args.allow_network
    /\ Len(candidates) = MaxCands
    /\ Returned

\* C13: the returned list never contains two assets with the same sha256
\* (so two URLs serving identical bytes give one asset), and assets of one
\* content hash and content type name one file of media_dir.
C13_DedupByContent ==
    Returned =>
        /\ \A i, j \in DOMAIN assets :
              assets[i].sha256 = assets[j].sha256 => i = j
        /\ \A i, j \in DOMAIN assets :
              (/\ assets[i].sha256 = assets[j].sha256
               /\ assets[i].content_type = assets[j].content_type)
              => assets[i].ext = assets[j].ext

\* C14: with policy.allow_network = true a call that ends has returned its
\* list; it never ends with an exception, whichever candidates failed or
\* were filtered out, all of them included.
C14_BatchResilience ==
    (args.allow_network /\ dpc = "done") => dresult = "returned"

\* m holds the file <sha256>.<ext> that the response to candidate c is saved as.
HasFile(m, c) ==
    LET r == server[c.url.name]
    IN \E f \in m : /\ f.sha256 = r.body.sha
                     /\ f.ext = _guess_ext(r.content_type, c.url)

\* The decoded size (w, h) fails the gates of the arguments a.
BelowGatesOf(a, w, h) ==
    \/ w < OrElse(a.min_width, 0)
    \/ h < OrElse(a.min_height, 0)
    \/ a.min_area # None /\ w * h < OrElse(a.min_area, 0)
    \/ LET m == IF a.max_aspect_ratio < 1 THEN 4 ELSE a.max_aspect_ratio
       IN Max(w, h) > m * Max(1, Min(w, h))

\* The decoded size (w, h) is below min_width/min_height, below min_area, or
\* its aspect ratio exceeds the maximum (4 when the argument is below 1).
BelowGates(w, h) ==
    \/ w < OrElse(args.min_width, 0)
    \/ h < OrElse(args.min_height, 0)
    \/ args.min_area # None /\ w * h < OrElse(args.min_area, 0)
    \/ LET m == IF args.max_aspect_ratio < 1 THEN 4 ELSE args.max_aspect_ratio
       IN Max(w, h) > m * Max(1, Min(w, h))

\* The GET of candidate c is answered in full by an allowed image response
\* (Content-Type image/*, or no Content-Type on a declared image whose URL
\* has an image suffix) that decodes to a size below the gates.
C15_Case(c) ==
    LET r == server[c.url.name]
    IN /\ r.ok /\ r.complete /\ 200 <= r.status /\ r.status < 400
       /\ "image" \in args.allowed_kinds
       /\ \/ r.content_type.major = "image"
          \/ r.content_type = NoType /\ c.kind = "image" /\ c.url.ext \in _IMAGE_EXTS
       /\ r.body.width # None /\ r.body.height # None
       /\ BelowGates(OrElse(r.body.width, 0), OrElse(r.body.height, 0))

C15_Step ==
    \A c \in processed' \ processed :
        C15_Case(c) =>
            /\ requested' = Append(requested, c.url)
            /\ assets' = assets
            /\ ~HasFile(media', c)

C15_NeverSurfaced ==
    \A i \in DOMAIN assets :
        (assets[i].kind = "image" /\ assets[i].width # None /\ assets[i].height # None)
        => ~BelowGates(OrElse(assets[i].width, 0), OrElse(assets[i].height, 0))

\* C15: the download-loop turn of a candidate whose image response decodes
\* below min_width/min_height/min_area or beyond the maximum aspect ratio
\* issues the GET, appends no asset and leaves no file of that content in
\* media_dir; no asset with such a decoded size is ever in the list.
C15_PostFilter == [](C15_NeverSurfaced) /\ [][C15_Step]_vars

\* A 50x50 image against a 150x150 minimum was requested and the call
\* returned without an asset or a file for it.
C15_Witness ==
    /\ Returned
    /\ args.min_width = Some(150) /\ args.min_height = Some(150)
    /\ \E c \in processed :
          /\ C15_Case(c)
          /\ server[c.url.name].body = Thumb
          /\ InRange(c.url, requested)
          /\ \A i \in DOMAIN assets : assets[i].url # c.url
          /\ ~HasFile(media, c)

\* Only candidates of an allowed declared kind are selected, and every GET
\* and every file belongs to a selected candidate.
C16_NoRequest ==
    /\ \A c \in selected : c.kind \in args.allowed_kinds
    /\ \A i \in DOMAIN requested : \E c \in selected : c.url = requested[i]
    /\ \A f \in media : \E c \in selected : server[c.url.name].body.sha = f.sha256
    /\ (parts > 0 \/ media # {}) => requested # <<>>

\* C16: a candidate whose declared kind is not in allowed_kinds causes no GET
\* and no file; a call in which every candidate is rejected this way returns
\* the empty list.
C16_PreRequestKindFilter ==
    /\ C16_NoRequest
    /\ (/\ args.allow_network /\ dpc = "done" /\ candidates # <<>>
        /\ \A i \in DOMAIN candidates : candidates[i].kind \notin args.allowed_kinds)
       => (dresult = "returned" /\ assets = <<>>)

\* The kind the Content-Type stands for: image/* -> image, video/* -> video,
\* application/pdf -> document; {} when the header does not coerce.
CoercedKind(ct) ==
    IF ct.major = "image" THEN {"image"}
    ELSE IF ct.major = "video" THEN {"video"}
    ELSE IF ct.major = "application" /\ ct.minor = "pdf" THEN {"document"}
    ELSE {}

\* Candidate c has an allowed declared kind and its GET is answered (with a
\* status that is not skipped) by a Content-Type that coerces the kind to one
\* outside allowed_kinds.
C17_Case(c) ==
    LET r == server[c.url.name]
    IN /\ c.kind \in args.allowed_kinds
       /\ r.ok
       /\ (200 <= r.status /\ r.status < 400) \/ args.allow_non_200
       /\ CoercedKind(r.content_type) # {}
       /\ CoercedKind(r.content_type) \cap args.allowed_kinds = {}

C17_Step ==
    \A c \in processed' \ processed :
        C17_Case(c) =>
            /\ requested' = Append(requested, c.url)
            /\ assets' = assets
            /\ media' = media
            /\ parts' = parts

\* C17: the download-loop turn of a candidate whose allowed declared kind is
\* coerced by the response Content-Type to a kind outside allowed_kinds
\* issues the GET, appends no asset and creates no file, final or temporary;
\* the call then ends by returning its list.
C17_PostCoercionFilter ==
    /\ [][C17_Step]_vars
    /\ []((dpc = "done" /\ \E c \in processed : C17_Case(c)) => dresult = "returned")

\* The only candidate, a declared image answered with application/pdf while
\* only images are allowed, was requested; the call returned an empty list
\* and media_dir is empty.
C17_Witness ==
    /\ Returned
    /\ Len(candidates) = 1
    /\ C17_Case(candidates[1])
    /\ candidates[1].kind = "image"
    /\ server[candidates[1].url.name].content_type = Type("application", "pdf")
    /\ requested = << candidates[1].url >>
    /\ assets = <<>> /\ media = {} /\ parts = 0

\* C18: when the call returns, every asset of the list names an existing file
\* <sha256>.<ext> of media_dir whose size is bytes_size and whose content
\* hashes to sha256.
C18_AssetFileConsistency ==
    Returned =>
        \A i \in DOMAIN assets :
            \E f \in media :
                /\ f.sha256 = assets[i].sha256
                /\ f.ext = assets[i].ext
                /\ f.content.size = assets[i].bytes_size
                /\ f.content.sha = assets[i].sha256

\* C19: the call issues at most max_items GET requests and its list holds at
\* most max_items assets, for every max_items >= 0.
C19_MaxItemsBound ==
    /\ Len(requested) <= args.max_items
    /\ Len(assets) <= args.max_items

\* Candidate c looks like an icon or logo and has none of the counter-signals:
\* no page_index, priority below 0.5, and no provided hint that is at least
\* double the configured minimum.
C20_Case(c) ==
    /\ \/ c.url.words \cap { "favicon", "sprite", "logo" } # {}
       \/ c.url.ext \in { "ico", "svg" }
    /\ c.page_index = None
    /\ c.priority < 5
    /\ \A w \in c.width_hint : w < 2 * OrElse(args.min_width_hint, 0)
    /\ \A h \in c.height_hint : h < 2 * OrElse(args.min_height_hint, 0)
    /\ \A b \in c.bytes_hint : b < 2 * OrElse(args.min_bytes_hint, 0)

\* C20: an icon-like candidate without a counter-signal is never selected and
\* its URL is never requested.
C20_IconPrefilter ==
    \A i \in DOMAIN candidates :
        C20_Case(candidates[i]) =>
            /\ \A c \in selected : c.url # candidates[i].url
            /\ ~InRange(candidates[i].url, requested)

\* ------------------------------------------- claims, cache and workers
\* The call found an artifact it can return at the cache check.
CacheHit == pre.html_raw # {} \/ (pol.render_js /\ pre.html_rendered # {})

\* C27: a call that hits the cache issues no network call and no render and
\* returns a Snapshot; the Snapshot is the rendered artifact exactly when
\* policy.render_js is set and the rendered artifact exists, the raw
\* artifact otherwise; its status_code is the one persisted in meta.json, or
\* 200 when meta.json is absent or has no status_code.
C27_CacheCheckSelection ==
    (CacheHit /\ pc = "done") =>
        /\ result.kind = "snapshot"
        /\ netLog = <<>> /\ renders = <<>>
        /\ IF pol.render_js /\ pre.html_rendered # {}
           THEN /\ result.mode = "rendered"
                /\ result.html_path = "html_rendered"
                /\ result.bytes = pre.html_rendered
           ELSE /\ result.mode = "raw"
                /\ result.html_path = "html_raw"
                /\ result.bytes = pre.html_raw
        /\ \/ \E m \in pre.meta : m.status_code # 0 /\ result.status_code = m.status_code
           \/ /\ \A m \in pre.meta : m.status_code = 0
              /\ result.status_code = 200

\* render_js against a cache holding only the raw artifact, with a persisted
\* status other than 200: raw is returned with that status and no render.
C27_Witness ==
    /\ pc = "done" /\ pol.render_js
    /\ pre.html_raw # {} /\ pre.html_rendered = {}
    /\ result.kind = "snapshot" /\ result.mode = "raw"
    /\ result.status_code # 200
    /\ renders = <<>>

\* The previous call failed with NetworkError for an HTTP status >= 400 or
\* with CaptchaBlockedError in strict mode.
AfterFailure == prevEnd \in {"http_error", "captcha_strict"}

\* The repeat after such a failure is served from the cache without any
\* network call, with status_code 200 when no meta.json existed.
C28_RepeatIsHit ==
    /\ (AfterFailure /\ pc # "done") => pc = "CacheCheck"
    /\ AfterFailure => (netLog = <<>> /\ renders = <<>> /\ pre.html_raw # {})
    /\ (AfterFailure /\ pc = "done") =>
          /\ result.kind = "snapshot"
          /\ pre.meta = {} => result.status_code = 200

C29_NoTempLeak == Returned => parts = 0

\* Every worker has finished its candidate.
RaceOver == at = "race" /\ \A w \in Workers : st.worker[w].pc = "done"

\* Worker w's own filters drop the content: the 1 KiB floor, or the image
\* gates on a probed image.
RaceDrops(w) ==
    LET b == inp.resp.body
    IN \/ b.size < 1024
       \/ /\ Probed(w)
          /\ IF b.width # None
             THEN BelowGatesOf(inp.args, OrElse(b.width, 0), OrElse(b.height, 0))
             ELSE b.size < 30 * 1024

\* While workers race, every file of media_dir is completely written.
C21_NeverPartial == at = "race" => \A f \in st.files : f.state = "full"

C22_DedupHighestPriority ==
    at = "found" =>
        /\ \A c, d \in st.result : c.url = d.url => c = d
        /\ \A k \in 1..Len(inp) :
               \E c \in st.result :
                   /\ c.url = inp[k].url
                   /\ c.priority >= MediaCandidateOf(inp[k]).priority
        /\ \A c \in st.result :
               \E k \in 1..Len(inp) :
                   /\ inp[k].url = c.url
                   /\ MediaCandidateOf(inp[k]).priority = c.priority

\* find has returned for a document in which a URL is collected first with
\* a lower priority and later with a higher one.
C22_Witness ==
    /\ at = "found"
    /\ \E i, j \in 1..Len(st.candidates) :
           /\ i < j
           /\ st.candidates[i].url = st.candidates[j].url
           /\ st.candidates[i].priority < st.candidates[j].priority

\* C23: find_media_candidates calls every registered finder, never raises
\* when a finder raises, and returns exactly the union, by (url, kind,
\* source) identity, of the candidate sets of the finders that did not
\* fail; a failing finder removes nothing contributed by the others.
C23_FanOutUnion ==
    at = "merged" =>
        /\ st.called = Len(inp)
        /\ ~ st.raised
        /\ { Identity(c) : c \in st.all_candidates }
               = UNION { { Identity(c) : c \in inp[k].candidates } :
                           k \in { j \in 1..Len(inp) : ~ inp[j].raises } }
        /\ \A c, e \in st.all_candidates : Identity(c) = Identity(e) => c = e

\* Discovery has returned candidates although a finder called before the
\* one that found them raised.
C23_Witness ==
    /\ at = "merged"
    /\ st.all_candidates # {}
    /\ \E j, k \in 1..Len(inp) :
           /\ j < k
           /\ inp[j].raises
           /\ inp[k].candidates # {}

\* ------------------------------------------------- claims, media insights

\* C24: when the assets hold a that is not duplicate-flagged and b that is,
\* with area(a) > area(b) and sharpness(a) > sharpness(b), rank_hero never
\* returns b, whatever the contrast values and the other assets.
C24_StrictPreference ==
    at = "ranked" =>
        \A a, b \in DOMAIN inp :
            /\ ~ inp[a].is_duplicate
            /\ inp[b].is_duplicate
            /\ inp[a].area > inp[b].area
            /\ inp[a].sharpness > inp[b].sharpness
            => st.result # Some(b)

\* rank_hero has returned for three assets where the duplicate-flagged,
\* smaller and blurrier one has the higher contrast.
C24_Witness ==
    /\ at = "ranked"
    /\ Cardinality(DOMAIN inp) = 3
    /\ \E a, b \in DOMAIN inp :
           /\ ~ inp[a].is_duplicate
           /\ inp[b].is_duplicate
           /\ inp[a].area > inp[b].area
           /\ inp[a].sharpness > inp[b].sharpness
           /\ inp[a].contrast < inp[b].contrast

\* C25: for a fixed set of assets with distinct sha256 and fixed signals,
\* rank_hero returns on every call and for every ordering of the sequence
\* the asset with the maximal score, ties broken by the highest area and
\* then by sha256, and it returns None exactly when the sequence is empty.
C25_HeroDeterminism ==
    at = "ranked" =>
        LET all == { inp[a] : a \in DOMAIN inp }
            score(a) == HeroScore(inp[a], all)
        IN  /\ st.result = None <=> DOMAIN inp = {}
            /\ st.result \subseteq DOMAIN inp
            /\ \A a \in st.result :
                   \A b \in DOMAIN inp \ {a} :
                       \/ score(a) > score(b)
                       \/ score(a) = score(b) /\ inp[a].area > inp[b].area
                       \/ /\ score(a) = score(b)
                          /\ inp[a].area = inp[b].area
                          /\ a > b

\* rank_hero has returned an asset that ties with one asset in score and
\* area, and with another in score but not in area.
C25_Witness ==
    /\ at = "ranked"
    /\ LET all == { inp[a] : a \in DOMAIN inp }
       IN  \E a \in st.result :
               \E b, c \in DOMAIN inp \ {a} :
                   /\ HeroScore(inp[a], all) = HeroScore(inp[b], all)
                   /\ inp[a].area = inp[b].area
                   /\ HeroScore(inp[a], all) = HeroScore(inp[c], all)
                   /\ inp[a].area > inp[c].area

\* ---------------------------------------------------- claims, cache layout

\* Two calls of cache_paths with the same URL returned identical paths; two
\* URLs with different 16-character hash prefixes got different roots and
\* media directories; media_dir is root/media and exists as a directory.
C26_Deterministic ==
    \A j, k \in 1..Len(st.returned) :
        LET r == st.returned[j]
            s == st.returned[k]
        IN  /\ r.url = s.url => r.paths = s.paths
            /\ _sha256(r.url)[1] # _sha256(s.url)[1] =>
                   /\ r.paths.root # s.paths.root
                   /\ r.paths.media_dir # s.paths.media_dir
            /\ r.paths.media_dir.parts = Append(r.paths.root.parts, "media")
            /\ r.paths.media_dir \in st.dirs

C30_ClusterCompleteness ==
    at = "clustered" =>
        \A j, k \in 1..Len(inp) :
            j # k /\ hamming_distance_hex(inp[j], inp[k]) <= PHASH_THRESHOLD
            => /\ {j, k} \subseteq st.is_duplicate
               /\ \E c \in st.clusters : {j, k} \subseteq c

====
